---- MODULE Spec2Model ----
(***************************************************************************)
(* taskmanager-rust: one command-line invocation after another against    *)
(* projects.json and config.json.                                          *)
(*                                                                         *)
(* An invocation is main(): RuntimeConfig::build (load both files, parse   *)
(* the command line), RuntimeConfig::run (dispatch one command, then       *)
(* persist), process exit.  write_data is two system-level steps,          *)
(* File::create (which truncates) and serde_json::to_writer (which writes  *)
(* straight to the unbuffered File), so the file's content between and     *)
(* after them is a state of the model.                                     *)
(*                                                                         *)
(* Uuid::new_v4 draws 122 random bits.  UUIDs are opaque to the program    *)
(* (it only compares them for equality), so the k-th value drawn is named  *)
(* k; a draw never repeats an earlier one.                                 *)
(*                                                                         *)
(* Three specifications: Spec, the invocations one after another; SpecNew, *)
(* ProjectTask::new called directly on any strings; SpecRace, two          *)
(* invocations at once on one projects.json, each writing through its own  *)
(* file descriptor.                                                        *)
(***************************************************************************)
EXTENDS Integers, FiniteSets, Sequences, TLC

\* Number of distinct UUIDs new_v4 can hand out over a whole behaviour.
NumUuids == 3

Uuids == 1..NumUuids
NoUuid == 0

\* ------------------------------------------------------------------ strings
\* The hyphenated text of a UUID, as serde writes it and the CLI reads it.
Uuid_to_string(u) == <<"uuid", u>>
\* A command-line string that is not the text of any UUID.
NotAUuid == <<"text", 0>>
IdStrings == {Uuid_to_string(u) : u \in Uuids} \cup {NotAUuid}

\* Uuid::parse_str: Ok(uuid) for a well-formed text, Err otherwise.
Uuid_parse_str(s) ==
    IF s[1] = "uuid" THEN [ok |-> TRUE, uuid |-> s[2]]
    ELSE [ok |-> FALSE, uuid |-> NoUuid]

\* Option<String>: <<>> is None, <<s>> is Some(s).
None == <<>>
Some(s) == <<s>>
\* The names and descriptions the command lines draw from: positional names,
\* the optional description, and the --name / --description of an update.
Names == {"n1", "n2"}
Descriptions == {"d1"}
NewNames == {"n2"}
NameOpts == {None} \cup {Some(s) : s \in NewNames}
DescriptionOpts == {None} \cup {Some(s) : s \in Descriptions}

\* ------------------------------------------------------------------ errors
Running == "Running"
Ok == "Ok"
InvalidIdentifier == "InvalidIdentifier: uuid::Error"
NotFoundProject == "NotFound: Project not found"
NotFoundTask == "NotFound: Task not found"
CorruptStore == "CorruptStore: serde_json::Error"
PersistenceFailure == "PersistenceFailure: io::Error"
Panic == "panic: called Option::unwrap() on a None value"
Errors == {InvalidIdentifier, NotFoundProject, NotFoundTask, CorruptStore, PersistenceFailure}

\* ------------------------------------------------------------------ HashMap
EmptyMap == [k \in {} |-> {}]
HashMap_contains(m, k) == k \in DOMAIN m
HashMap_insert(m, k, v) == [x \in (DOMAIN m) \cup {k} |-> IF x = k THEN v ELSE m[x]]
HashMap_remove(m, k) == [x \in (DOMAIN m) \ {k} |-> m[x]]

\* ------------------------------------------------------------------ tasks
\* ProjectTaskType::from_str
ProjectTaskType_from_str(input) ==
    IF input = "default" THEN [ok |-> TRUE, val |-> "Default"]
    ELSE [ok |-> FALSE, val |-> "Default"]

\* Mutation of ProjectTaskStatus_from_str: an unknown string is an Err(()), as in
\* ProjectTaskType::from_str.
ProjectTaskStatus_from_str_strict(input) ==
    CASE input = "todo" -> [ok |-> TRUE, val |-> "Todo"]
      [] input = "in_progress" -> [ok |-> TRUE, val |-> "InProgress"]
      [] input = "complete" -> [ok |-> TRUE, val |-> "Complete"]
      [] OTHER -> [ok |-> FALSE, val |-> "Default"]

\* ProjectTaskStatus::from_str (never an Err)
ProjectTaskStatus_from_str(input) ==
    CASE input = "todo" -> [ok |-> TRUE, val |-> "Todo"]
      [] input = "in_progress" -> [ok |-> TRUE, val |-> "InProgress"]
      [] input = "complete" -> [ok |-> TRUE, val |-> "Complete"]
      [] OTHER -> [ok |-> TRUE, val |-> "Default"]

\* ProjectTask::new; id is the value Uuid::new_v4 returns.
ProjectTask_new(name, description, type_, status, id) ==
    LET task_type_result == ProjectTaskType_from_str(type_)
        task_type == IF task_type_result.ok THEN task_type_result.val ELSE "Default"
        task_status_result == ProjectTaskStatus_from_str(status)
        task_status == IF task_status_result.ok THEN task_status_result.val ELSE "Todo"
    IN [id |-> id, name |-> name, description |-> description,
        type_ |-> task_type, status |-> task_status]

\* ------------------------------------------------------------------ projects
\* Mutation of Project_new: name and description change places.
Project_new_swapped(name, description, id) ==
    [id |-> id, name |-> description, description |-> name, tasks |-> [k \in {} |-> {}]]

\* Project::new
Project_new(name, description, id) ==
    [id |-> id, name |-> name, description |-> description, tasks |-> EmptyMap]

\* Mutation of Project_create_task: the status literal is misspelt, which
\* ProjectTaskStatus::from_str turns into Default.
Project_create_task_misspelt(project, name, description, id) ==
    LET task == ProjectTask_new(name, description, "default", "to_do", id)
    IN [project EXCEPT !.tasks = HashMap_insert(project.tasks, task.id, task)]

\* Mutation of Project_create_task: the task is inserted under the project's id.
Project_create_task_under_project_id(project, name, description, id) ==
    LET task == ProjectTask_new(name, description, "default", "todo", id)
    IN [project EXCEPT !.tasks = HashMap_insert(project.tasks, project.id, task)]

\* Project::create_task: the project after the insert (the task id is `id`).
Project_create_task(project, name, description, id) ==
    LET task == ProjectTask_new(name, description, "default", "todo", id)
        task_id == task.id
    IN [project EXCEPT !.tasks = HashMap_insert(project.tasks, task_id, task)]

\* Project::destroy_task: remove(task_id).unwrap() panics on an absent key.
Project_destroy_task(project, task_id) ==
    IF HashMap_contains(project.tasks, task_id)
    THEN [panic |-> FALSE,
          project |-> [project EXCEPT !.tasks = HashMap_remove(project.tasks, task_id)]]
    ELSE [panic |-> TRUE, project |-> project]

\* Mutation of create_project: the identifier is the collection's new size, not
\* the value Uuid::new_v4 returned.
create_project_counted(projects, name, description, id) ==
    LET project == Project_new(name, description, Cardinality(DOMAIN projects) + 1)
        project_id == project.id
    IN HashMap_insert(projects, project_id, project)

\* ProjectData::create_project: the collection after the insert.
create_project(projects, name, description, id) ==
    LET project == Project_new(name, description, id)
        project_id == project.id
    IN HashMap_insert(projects, project_id, project)

\* Mutation of destroy_project: the key is looked up and nothing is removed.
destroy_project_keeps(projects, project_id) ==
    IF HashMap_contains(projects, project_id)
    THEN [panic |-> FALSE, projects |-> projects]
    ELSE [panic |-> TRUE, projects |-> projects]

\* ProjectData::destroy_project: remove(project_id).unwrap() panics on an absent key.
destroy_project(projects, project_id) ==
    IF HashMap_contains(projects, project_id)
    THEN [panic |-> FALSE, projects |-> HashMap_remove(projects, project_id)]
    ELSE [panic |-> TRUE, projects |-> projects]

\* Mutation of get_project: an absent key yields a new, empty project.
get_project_or_new(projects, project_id) ==
    IF HashMap_contains(projects, project_id) THEN Some(projects[project_id])
    ELSE Some(Project_new("", "", project_id))

\* ProjectData::get_project / get_project_mut: Some(project) or None.
get_project(projects, project_id) ==
    IF HashMap_contains(projects, project_id) THEN Some(projects[project_id]) ELSE None

\* ProjectData::get_projects: the projects, for listing.
get_projects(projects) == {projects[k] : k \in DOMAIN projects}

\* ------------------------------------------------------------------ files
\* A file on disk: absent, or the JSON members written so far and whether the
\* text is a complete JSON document (closed by its final brace).
NoFile == [exists |-> FALSE, complete |-> FALSE, members |-> {}]
\* What File::create leaves: an existing file of zero bytes.
TruncatedFile == [exists |-> TRUE, complete |-> FALSE, members |-> {}]

\* serde's Serialize for ProjectTask (derive): unit variants as their names.
JsonTask(t) ==
    [id |-> Uuid_to_string(t.id), name |-> t.name, description |-> t.description,
     type_ |-> t.type_, status |-> t.status]

\* serde's Serialize for Project (derive); the task map as a JSON object.
JsonProject(p) ==
    [id |-> Uuid_to_string(p.id), name |-> p.name, description |-> p.description,
     tasks |-> {[key |-> Uuid_to_string(k), value |-> JsonTask(p.tasks[k])] :
                    k \in DOMAIN p.tasks}]

\* The members of the JSON object serde_json::to_writer writes for the collection.
JsonProjects(projects) ==
    {[key |-> Uuid_to_string(k), value |-> JsonProject(projects[k])] : k \in DOMAIN projects}

\* The file after a to_writer that ran to its end.
WrittenFile(projects) ==
    [exists |-> TRUE, complete |-> TRUE, members |-> JsonProjects(projects)]

\* The files a to_writer that failed part-way can leave behind.
PartialFiles(projects) ==
    {[exists |-> TRUE, complete |-> FALSE, members |-> ms] : ms \in SUBSET JsonProjects(projects)}

TaskTypeNames == {"Default"}
TaskStatusNames == {"Default", "Todo", "InProgress", "Complete"}

\* serde's Deserialize can read this task member.
TaskMemberOk(m) ==
    /\ Uuid_parse_str(m.key).ok
    /\ Uuid_parse_str(m.value.id).ok
    /\ m.value.type_ \in TaskTypeNames
    /\ m.value.status \in TaskStatusNames

\* serde's Deserialize can read this project member.
ProjectMemberOk(m) ==
    /\ Uuid_parse_str(m.key).ok
    /\ Uuid_parse_str(m.value.id).ok
    /\ \A t \in m.value.tasks : TaskMemberOk(t)

\* Mutation of ParseTask: the status member is skipped and the variant is Default.
ParseTask_skips_status(v) ==
    [id |-> Uuid_parse_str(v.id).uuid, name |-> v.name, description |-> v.description,
     type_ |-> v.type_, status |-> "Default"]

\* serde's Deserialize for ProjectTask.
ParseTask(v) ==
    [id |-> Uuid_parse_str(v.id).uuid, name |-> v.name, description |-> v.description,
     type_ |-> v.type_, status |-> v.status]

\* serde's Deserialize for HashMap<Uuid, ProjectTask>.
ParseTasks(ms) ==
    [k \in {Uuid_parse_str(m.key).uuid : m \in ms} |->
        ParseTask((CHOOSE m \in ms : m.key = Uuid_to_string(k)).value)]

\* serde's Deserialize for Project.
ParseProject(v) ==
    [id |-> Uuid_parse_str(v.id).uuid, name |-> v.name, description |-> v.description,
     tasks |-> ParseTasks(v.tasks)]

\* serde_json::from_reader::<HashMap<Uuid, Project>>
ParseProjects(ms) ==
    [k \in {Uuid_parse_str(m.key).uuid : m \in ms} |->
        ParseProject((CHOOSE m \in ms : m.key = Uuid_to_string(k)).value)]

\* Mutation of load_projects: a text that cannot be read loads as an empty map.
load_projects_lenient(f) ==
    IF f.exists /\ f.complete /\ \A m \in f.members : ProjectMemberOk(m)
    THEN [result |-> Ok, projects |-> ParseProjects(f.members)]
    ELSE [result |-> Ok, projects |-> EmptyMap]

\* load_projects: an absent file is an empty map; an unreadable text is an error.
load_projects(f) ==
    IF ~f.exists THEN [result |-> Ok, projects |-> EmptyMap]
    ELSE IF f.complete /\ \A m \in f.members : ProjectMemberOk(m)
         THEN [result |-> Ok, projects |-> ParseProjects(f.members)]
         ELSE [result |-> CorruptStore, projects |-> EmptyMap]

\* load_data wraps the map in ProjectData.
load_data(f) == load_projects(f)

\* config.json: absent, a valid document, or a text serde cannot read.
NoConfigFile == [exists |-> FALSE, complete |-> FALSE, persistence_mode |-> "JSON"]
ValidConfigFile == [exists |-> TRUE, complete |-> TRUE, persistence_mode |-> "JSON"]
CorruptConfigFile == [exists |-> TRUE, complete |-> FALSE, persistence_mode |-> "JSON"]
ConfigFiles == {NoConfigFile, ValidConfigFile, CorruptConfigFile}
\* PersistenceMode has one variant, so a valid config.json loads to the Config an
\* absent one gives and the program never writes the file: the behaviours from
\* ValidConfigFile are those from NoConfigFile, file for file.  Spec starts from
\* the other two.
StartConfigFiles == {NoConfigFile, CorruptConfigFile}

PersistenceModes == {"JSON"}

\* Mutation of Config_default: another mode is the default.
Config_default_sql == [persistence_mode |-> "SQL"]

\* Config::default
Config_default == [persistence_mode |-> "JSON"]

\* Mutation of load_config: a text that cannot be read loads as the default.
load_config_lenient(f) ==
    IF f.exists /\ f.complete /\ f.persistence_mode \in PersistenceModes
    THEN [result |-> Ok, config |-> [persistence_mode |-> f.persistence_mode]]
    ELSE [result |-> Ok, config |-> Config_default]

\* load_config
load_config(f) ==
    IF ~f.exists THEN [result |-> Ok, config |-> Config_default]
    ELSE IF f.complete /\ f.persistence_mode \in PersistenceModes
         THEN [result |-> Ok, config |-> [persistence_mode |-> f.persistence_mode]]
         ELSE [result |-> CorruptStore, config |-> Config_default]

\* ------------------------------------------------------------------ commands
\* What the command line parses to (clap): the namespace, the subcommand (or
\* none: ProjectArgs.command and ConfigArgs.command are Options) and its
\* arguments.  Fields a subcommand does not take hold a filler.
Args(ns, command, project_id, task_id, name, description, key, value) ==
    [ns |-> ns, command |-> command, project_id |-> project_id, task_id |-> task_id,
     name |-> name, description |-> description, key |-> key, value |-> value]

NoNamespace == Args("-", "-", NotAUuid, NotAUuid, None, None, "-", "-")
ConfigKeys == {"persistence_mode", "colour"}
ConfigValues == {"JSON", "SQL"}

\* stdout of one command: a header line and the listed lines.
NoOutput == [header |-> <<>>, lines |-> {}]
\* println!("{}: {} - {}", id, name, description)
Line(id, name, description) == [id |-> id, name |-> name, description |-> description]

\* What a command did: its Result (or the panic), the collection afterwards, the
\* identifier the domain operation returned, stdout, and the UUIDs it drew.
Outcome(result, projects, ret, out, drew) ==
    [result |-> result, projects |-> projects, ret |-> ret, out |-> out, drew |-> drew]

\* Option<String>::unwrap_or(""), as `match description { Some(d) => d, None => "" }`
OrEmpty(opt) == IF opt = None THEN "" ELSE opt[1]

\* ProjectCommand::Create
ProjectCommand_Create(projects, a, fresh) ==
    LET project_description == OrEmpty(a.description)
    IN Outcome(Ok, create_project(projects, a.name[1], project_description, fresh),
               fresh, NoOutput, 1)

\* ProjectCommand::Destroy
ProjectCommand_Destroy(projects, a) ==
    LET parsed == Uuid_parse_str(a.project_id)
        removed == destroy_project(projects, parsed.uuid)
    IN IF ~parsed.ok THEN Outcome(InvalidIdentifier, projects, NoUuid, NoOutput, 0)
       ELSE IF removed.panic THEN Outcome(Panic, projects, NoUuid, NoOutput, 0)
       ELSE Outcome(Ok, removed.projects, NoUuid, NoOutput, 0)

\* Mutation of Patch: a full replace, where an omitted field is emptied.
Patch_replace(target, name, description) ==
    [target EXCEPT !.name = OrEmpty(name), !.description = OrEmpty(description)]

\* The partial patch of Update and UpdateTask: `if let Some(x) = x { target.x = x }`
Patch(target, name, description) ==
    LET named == IF name # None THEN [target EXCEPT !.name = name[1]] ELSE target
    IN IF description # None THEN [named EXCEPT !.description = description[1]] ELSE named

\* ProjectCommand::Update
ProjectCommand_Update(projects, a) ==
    LET parsed == Uuid_parse_str(a.project_id)
        project == get_project(projects, parsed.uuid)
    IN IF ~parsed.ok THEN Outcome(InvalidIdentifier, projects, NoUuid, NoOutput, 0)
       ELSE IF project = None THEN Outcome(NotFoundProject, projects, NoUuid, NoOutput, 0)
       ELSE Outcome(Ok,
                    [projects EXCEPT ![parsed.uuid] = Patch(project[1], a.name, a.description)],
                    NoUuid, NoOutput, 0)

\* ProjectCommand::List
ProjectCommand_List(projects) ==
    Outcome(Ok, projects, NoUuid,
            [header |-> <<"Projects:">>,
             lines |-> {Line(p.id, p.name, p.description) : p \in get_projects(projects)}],
            0)

\* ProjectCommand::CreateTask
ProjectCommand_CreateTask(projects, a, fresh) ==
    LET parsed == Uuid_parse_str(a.project_id)
        task_description == OrEmpty(a.description)
        project == get_project(projects, parsed.uuid)
    IN IF ~parsed.ok THEN Outcome(InvalidIdentifier, projects, NoUuid, NoOutput, 0)
       ELSE IF project = None THEN Outcome(NotFoundProject, projects, NoUuid, NoOutput, 0)
       ELSE Outcome(Ok,
                    [projects EXCEPT ![parsed.uuid] =
                        Project_create_task(project[1], a.name[1], task_description, fresh)],
                    fresh, NoOutput, 1)

\* ProjectCommand::DestroyTask
ProjectCommand_DestroyTask(projects, a) ==
    LET project_parsed == Uuid_parse_str(a.project_id)
        task_parsed == Uuid_parse_str(a.task_id)
        project == get_project(projects, project_parsed.uuid)
        removed == Project_destroy_task(project[1], task_parsed.uuid)
    IN IF ~project_parsed.ok \/ ~task_parsed.ok
       THEN Outcome(InvalidIdentifier, projects, NoUuid, NoOutput, 0)
       ELSE IF project = None THEN Outcome(NotFoundProject, projects, NoUuid, NoOutput, 0)
       ELSE IF removed.panic THEN Outcome(Panic, projects, NoUuid, NoOutput, 0)
       ELSE Outcome(Ok, [projects EXCEPT ![project_parsed.uuid] = removed.project],
                    NoUuid, NoOutput, 0)

\* ProjectCommand::UpdateTask
ProjectCommand_UpdateTask(projects, a) ==
    LET project_parsed == Uuid_parse_str(a.project_id)
        task_parsed == Uuid_parse_str(a.task_id)
        project == get_project(projects, project_parsed.uuid)
    IN IF ~project_parsed.ok \/ ~task_parsed.ok
       THEN Outcome(InvalidIdentifier, projects, NoUuid, NoOutput, 0)
       ELSE IF project = None THEN Outcome(NotFoundProject, projects, NoUuid, NoOutput, 0)
       ELSE IF ~HashMap_contains(project[1].tasks, task_parsed.uuid)
       THEN Outcome(NotFoundTask, projects, NoUuid, NoOutput, 0)
       ELSE Outcome(Ok,
                    [projects EXCEPT ![project_parsed.uuid].tasks[task_parsed.uuid] =
                        Patch(@, a.name, a.description)],
                    NoUuid, NoOutput, 0)

\* ProjectCommand::ListTasks
ProjectCommand_ListTasks(projects, a) ==
    LET parsed == Uuid_parse_str(a.project_id)
        project == get_project(projects, parsed.uuid)
    IN IF ~parsed.ok THEN Outcome(InvalidIdentifier, projects, NoUuid, NoOutput, 0)
       ELSE IF project = None THEN Outcome(NotFoundProject, projects, NoUuid, NoOutput, 0)
       ELSE Outcome(Ok, projects, NoUuid,
                    [header |-> <<"Project tasks:">>,
                     lines |-> {Line(k, project[1].tasks[k].name, project[1].tasks[k].description) :
                                    k \in DOMAIN project[1].tasks}],
                    0)

\* RuntimeConfig::run_project_command; args.command.clone().unwrap() panics
\* when no subcommand was given.
run_project_command(projects, a, fresh) ==
    CASE a.command = "Create" -> ProjectCommand_Create(projects, a, fresh)
      [] a.command = "Destroy" -> ProjectCommand_Destroy(projects, a)
      [] a.command = "Update" -> ProjectCommand_Update(projects, a)
      [] a.command = "List" -> ProjectCommand_List(projects)
      [] a.command = "CreateTask" -> ProjectCommand_CreateTask(projects, a, fresh)
      [] a.command = "DestroyTask" -> ProjectCommand_DestroyTask(projects, a)
      [] a.command = "UpdateTask" -> ProjectCommand_UpdateTask(projects, a)
      [] a.command = "ListTasks" -> ProjectCommand_ListTasks(projects, a)
      [] OTHER -> Outcome(Panic, projects, NoUuid, NoOutput, 0)

\* RuntimeConfig::run_config_command: Get prints, Set only acknowledges.
run_config_command(projects, cfg, a) ==
    CASE a.command = "Get" ->
            Outcome(Ok, projects, NoUuid,
                    [header |-> IF a.key = "persistence_mode"
                                THEN <<"Persistence Mode:", cfg.persistence_mode>>
                                ELSE <<"Invalid config key">>,
                     lines |-> {}],
                    0)
      [] a.command = "Set" ->
            Outcome(Ok, projects, NoUuid,
                    [header |-> <<"Setting config key:", a.key, "to value:", a.value>>,
                     lines |-> {}],
                    0)
      [] OTHER -> Outcome(Panic, projects, NoUuid, NoOutput, 0)

\* Mutation of ConfigCommand_Set: the value is stored as the persistence mode.
ConfigCommand_Set_stores(cfg, a) ==
    IF a.key = "persistence_mode" THEN [cfg EXCEPT !.persistence_mode = a.value] ELSE cfg

\* ConfigCommand::Set, its effect on self.config: none, it only prints.
ConfigCommand_Set(cfg, a) == cfg

\* RuntimeConfig::run, up to the match on run_result.
run_command(projects, cfg, a, fresh) ==
    IF a.ns = "Project" THEN run_project_command(projects, a, fresh)
    ELSE run_config_command(projects, cfg, a)

\* Mutation of PersistsAfter: run returns the command's Ok without persisting.
PersistsAfter_never(a, run_result) == FALSE

\* RuntimeConfig::run: Ok(_) => self.persist()?, in both namespaces.
PersistsAfter(a, run_result) == run_result = Ok

\* File::create(PROJECTS_FILE): the file exists and is empty.
File_create(f) == TruncatedFile

\* serde_json::to_writer(file, &data.projects), run to its end.
to_writer(f, projects) == WrittenFile(projects)

\* ------------------------------------------------------------------ state
VARIABLES
    projects_file,  \* projects.json
    config_file,    \* config.json
    pc,             \* where main() is: "start", "built", "ran", "created", "exit"
    namespace,      \* RuntimeConfig.namespace: the parsed command line
    config,         \* RuntimeConfig.config
    projects_data,  \* RuntimeConfig.projects_data.projects
    result,         \* how the invocation ended: Ok, an error, the panic; Running before
    ret,            \* the identifier create_project / create_task returned
    out,            \* stdout of the command
    fileAtStart,    \* projects.json as it was when this invocation started
    creates,        \* File::create calls on projects.json in this invocation
    nextUuid,       \* how many UUIDs Uuid::new_v4 has handed out
    destroyed,      \* history: the projects whose destroy ended in success, with the
                    \* task ids each held then
    assigned,       \* history: every UUID that has been the id of a project or task
    new_call,       \* the arguments of a direct call of ProjectTask::new
    new_task,       \* the ProjectTask that call returned
    race_file,      \* projects.json under two concurrent invocations: its text, piece by piece
    race_proc,      \* the two concurrent invocations: where each is, what it holds
    race_last       \* history: the invocation whose write_data returned last

vars == <<projects_file, config_file, pc, namespace, config, projects_data, result, ret,
          out, fileAtStart, creates, nextUuid, destroyed, assigned, new_call, new_task, race_file, race_proc, race_last>>

\* No direct call of ProjectTask::new: the command line reaches it only through
\* Project::create_task, with the literals "default" and "todo".
NoCall == [name |-> "", description |-> "", type_ |-> "", status |-> ""]
NoTask == [id |-> NoUuid, name |-> "", description |-> "", type_ |-> "", status |-> ""]

\* No concurrent invocations: one process at a time, as in Spec.
Procs == {"A", "B"}
NoProc == "-"
NoText == <<>>
NoRace ==
    [p \in Procs |-> [pc |-> "exit", namespace |-> NoNamespace, loaded |-> EmptyMap,
                      projects_data |-> EmptyMap, offset |-> Len(NoText), result |-> Running]]

\* The command lines clap accepts.
ProjectCommandLines ==
    {Args("Project", "Create", NotAUuid, NotAUuid, Some(n), d, "-", "-") :
        n \in Names, d \in DescriptionOpts}
    \cup {Args("Project", "Destroy", p, NotAUuid, None, None, "-", "-") : p \in IdStrings}
    \cup {Args("Project", "Update", p, NotAUuid, n, d, "-", "-") :
            p \in IdStrings, n \in NameOpts, d \in DescriptionOpts}
    \cup {Args("Project", "List", NotAUuid, NotAUuid, None, None, "-", "-")}
    \cup {Args("Project", "CreateTask", p, NotAUuid, Some(n), d, "-", "-") :
            p \in IdStrings, n \in Names, d \in DescriptionOpts}
    \cup {Args("Project", "DestroyTask", p, t, None, None, "-", "-") :
            p \in IdStrings, t \in IdStrings}
    \cup {Args("Project", "UpdateTask", p, t, n, d, "-", "-") :
            p \in IdStrings, t \in IdStrings, n \in NameOpts, d \in DescriptionOpts}
    \cup {Args("Project", "ListTasks", p, NotAUuid, None, None, "-", "-") : p \in IdStrings}
    \cup {Args("Project", "-", NotAUuid, NotAUuid, None, None, "-", "-")}

ConfigCommandLines ==
    {Args("Config", "Get", NotAUuid, NotAUuid, None, None, k, "-") : k \in ConfigKeys}
    \cup {Args("Config", "Set", NotAUuid, NotAUuid, None, None, k, v) :
            k \in ConfigKeys, v \in ConfigValues}
    \cup {Args("Config", "-", NotAUuid, NotAUuid, None, None, "-", "-")}

CommandLines == ProjectCommandLines \cup ConfigCommandLines

Init ==
    /\ projects_file = NoFile
    /\ config_file \in StartConfigFiles
    /\ pc = "start"
    /\ namespace = NoNamespace
    /\ config = Config_default
    /\ projects_data = EmptyMap
    /\ result = Running
    /\ ret = NoUuid
    /\ out = NoOutput
    /\ fileAtStart = NoFile
    /\ creates = 0
    /\ nextUuid = 0
    /\ destroyed = {}
    /\ assigned = {}
    /\ new_call = NoCall
    /\ new_task = NoTask
    /\ race_file = NoText
    /\ race_proc = NoRace
    /\ race_last = NoProc

\* The process has ended: its RuntimeConfig is gone.  What is left of the
\* invocation is the files, stdout and how it ended.
ProcessGone ==
    /\ namespace' = NoNamespace
    /\ config' = Config_default
    /\ projects_data' = EmptyMap
    /\ ret' = NoUuid

\* RuntimeConfig::build fails in load_data or load_config; main prints and exits 1.
BuildFails ==
    /\ pc = "start"
    /\ LET d == load_data(projects_file)
           c == load_config(config_file)
       IN /\ d.result # Ok \/ c.result # Ok
          /\ result' = IF d.result # Ok THEN d.result ELSE c.result
    /\ pc' = "exit"
    /\ ProcessGone
    /\ UNCHANGED <<projects_file, config_file, out, fileAtStart, creates, nextUuid, destroyed, assigned,
                   new_call, new_task, race_file, race_proc, race_last>>

\* RuntimeConfig::build: load_data, load_config, then Cli::parse.
Build ==
    /\ pc = "start"
    /\ LET d == load_data(projects_file)
           c == load_config(config_file)
       IN /\ d.result = Ok
          /\ c.result = Ok
          /\ projects_data' = d.projects
          /\ config' = c.config
    /\ \E a \in CommandLines :
          /\ a.command \in {"Create", "CreateTask"} => nextUuid < NumUuids
          /\ namespace' = a
    /\ pc' = "built"
    /\ UNCHANGED <<projects_file, config_file, result, ret, out, fileAtStart, creates,
                   nextUuid, destroyed, assigned,
                   new_call, new_task, race_file, race_proc, race_last>>

\* History: the UUIDs that are the id, or the key, of a project or task of the
\* collection.
AllIds(projects) ==
    LET ps == {projects[k] : k \in DOMAIN projects}
    IN (DOMAIN projects) \cup {p.id : p \in ps}
       \cup UNION {(DOMAIN p.tasks) \cup {p.tasks[t].id : t \in DOMAIN p.tasks} : p \in ps}

\* RuntimeConfig::run: run_project_command or run_config_command returned Ok, so
\* run goes on to self.persist().
Dispatch ==
    /\ pc = "built"
    /\ LET o == run_command(projects_data, config, namespace, nextUuid + 1)
       IN /\ PersistsAfter(namespace, o.result)
          /\ projects_data' = o.projects
          /\ ret' = o.ret
          /\ out' = o.out
          /\ nextUuid' = nextUuid + o.drew
          /\ assigned' = assigned \cup AllIds(o.projects)
    /\ config' = IF namespace.ns = "Config" /\ namespace.command = "Set"
                 THEN ConfigCommand_Set(config, namespace)
                 ELSE config
    /\ pc' = "ran"
    /\ UNCHANGED <<projects_file, config_file, namespace, result, fileAtStart,
                   creates, destroyed, new_call, new_task, race_file, race_proc, race_last>>

\* RuntimeConfig::run: the command returned an Err, which run hands to main
\* (exit 1), or it panicked, which ends the process.  No persist.
DispatchFails ==
    /\ pc = "built"
    /\ LET o == run_command(projects_data, config, namespace, nextUuid + 1)
       IN /\ ~PersistsAfter(namespace, o.result)
          /\ result' = o.result
          /\ out' = o.out
          /\ nextUuid' = nextUuid + o.drew
    /\ pc' = "exit"
    /\ ProcessGone
    /\ UNCHANGED <<projects_file, config_file, fileAtStart, creates, destroyed, assigned,
                   new_call, new_task, race_file, race_proc, race_last>>

\* write_data: File::create succeeded.
PersistCreate ==
    /\ pc = "ran"
    /\ projects_file' = File_create(projects_file)
    /\ creates' = creates + 1
    /\ pc' = "created"
    /\ UNCHANGED <<config_file, namespace, config, projects_data, result, ret, out,
                   fileAtStart, nextUuid, destroyed, assigned,
                   new_call, new_task, race_file, race_proc, race_last>>

\* write_data: File::create(..)? failed; nothing was touched.
PersistCreateFails ==
    /\ pc = "ran"
    /\ result' = PersistenceFailure
    /\ pc' = "exit"
    /\ ProcessGone
    /\ UNCHANGED <<projects_file, config_file, out, fileAtStart, creates, nextUuid, destroyed, assigned,
                   new_call, new_task, race_file, race_proc, race_last>>

\* History: the project a successful Destroy of this invocation removed, with the
\* task ids it held when the command was dispatched.
DestroyedNow ==
    LET before == load_projects(fileAtStart).projects
        id == Uuid_parse_str(namespace.project_id).uuid
    IN IF namespace.ns = "Project" /\ namespace.command = "Destroy"
       THEN {[project |-> id, tasks |-> DOMAIN before[id].tasks]}
       ELSE {}

\* write_data: to_writer succeeded; run returns Ok(()) and main falls off its end.
PersistWrite ==
    /\ pc = "created"
    /\ projects_file' = to_writer(projects_file, projects_data)
    /\ result' = Ok
    /\ pc' = "exit"
    /\ destroyed' = destroyed \cup DestroyedNow
    /\ ProcessGone
    /\ UNCHANGED <<config_file, out, fileAtStart, creates, nextUuid, assigned,
                   new_call, new_task, race_file, race_proc, race_last>>

\* write_data: to_writer(..)? failed part-way; what it wrote stays in the file.
PersistWriteFails ==
    /\ pc = "created"
    /\ \E f \in PartialFiles(projects_data) : projects_file' = f
    /\ result' = PersistenceFailure
    /\ pc' = "exit"
    /\ ProcessGone
    /\ UNCHANGED <<config_file, out, fileAtStart, creates, nextUuid, destroyed, assigned,
                   new_call, new_task, race_file, race_proc, race_last>>

\* The next invocation starts, with the files as the last one left them.
NextInvocation ==
    /\ pc = "exit"
    /\ pc' = "start"
    /\ result' = Running
    /\ out' = NoOutput
    /\ fileAtStart' = projects_file
    /\ creates' = 0
    /\ UNCHANGED <<projects_file, config_file, namespace, config, projects_data, ret,
                   nextUuid, destroyed, assigned,
                   new_call, new_task, race_file, race_proc, race_last>>

Next ==
    \/ BuildFails
    \/ Build
    \/ Dispatch
    \/ DispatchFails
    \/ PersistCreate
    \/ PersistCreateFails
    \/ PersistWrite
    \/ PersistWriteFails
    \/ NextInvocation

Spec == Init /\ [][Next]_vars

\* ------------------------------------------------------------------ ProjectTask::new
\* ProjectTask::new called directly, on any strings: the type and status strings
\* it knows, their capitalised variant names, one it does not know, and the empty one.
TypeStrings == {"default", "Default", "bogus", ""}
StatusStrings == {"todo", "in_progress", "complete", "Todo", "default", "bogus", ""}
NewCalls ==
    {[name |-> n, description |-> d, type_ |-> t, status |-> s] :
        n \in Names, d \in Descriptions \cup {""}, t \in TypeStrings, s \in StatusStrings}

InitNew ==
    /\ projects_file = NoFile
    /\ config_file = NoConfigFile
    /\ pc = "start"
    /\ namespace = NoNamespace
    /\ config = Config_default
    /\ projects_data = EmptyMap
    /\ result = Running
    /\ ret = NoUuid
    /\ out = NoOutput
    /\ fileAtStart = NoFile
    /\ creates = 0
    /\ nextUuid = 0
    /\ destroyed = {}
    /\ assigned = {}
    /\ new_call \in NewCalls
    /\ new_task = NoTask
    /\ race_file = NoText
    /\ race_proc = NoRace
    /\ race_last = NoProc

\* ProjectTask::new(name, description, type_, status); Uuid::new_v4 returns any UUID.
CallNew ==
    /\ new_task = NoTask
    /\ \E id \in Uuids :
          new_task' = ProjectTask_new(new_call.name, new_call.description,
                                      new_call.type_, new_call.status, id)
    /\ UNCHANGED <<projects_file, config_file, pc, namespace, config, projects_data, result,
                   ret, out, fileAtStart, creates, nextUuid, destroyed, assigned, new_call,
                   race_file, race_proc, race_last>>

NextNew == CallNew

SpecNew == InitNew /\ [][NextNew]_vars

\* ------------------------------------------------------------------ two invocations at once
\* Two processes run main() at the same time in one directory.  Each has its own
\* RuntimeConfig and, from File::create, its own file descriptor with its own
\* offset; serde_json::to_writer writes the text piece by piece, each write
\* going to the file at the writer's offset.  The text is modelled by its
\* pieces: the opening brace, one piece per member, the closing brace, and a
\* hole of NUL bytes where a write landed past the end of the file.
SequentialVars ==
    <<projects_file, config_file, pc, namespace, config, projects_data, result, ret, out,
      fileAtStart, creates, nextUuid, destroyed, assigned, new_call, new_task>>

RaceOpen == <<"{">>
RaceClose == <<"}">>
RaceHole == <<"NUL">>
RaceMember(m) == <<"member", m>>

\* The text to_writer produces for a collection.
RaceText(projects) ==
    LET ids == SelectSeq([i \in 1..NumUuids |-> i], LAMBDA i : i \in DOMAIN projects)
    IN <<RaceOpen>>
       \o [i \in 1..Len(ids) |->
              RaceMember([key |-> Uuid_to_string(ids[i]), value |-> JsonProject(projects[ids[i]])])]
       \o <<RaceClose>>

\* The file a reader finds: a JSON document if the text is an opening brace,
\* members and a closing brace, and nothing else.
RaceReadFile(text) ==
    [exists |-> TRUE,
     complete |-> /\ Len(text) >= 2
                  /\ text[1] = RaceOpen
                  /\ text[Len(text)] = RaceClose
                  /\ \A i \in 2..(Len(text) - 1) : text[i][1] = "member",
     members |-> {text[i][2] : i \in {j \in 1..Len(text) : text[j][1] = "member"}}]

\* write(2) of one piece at an offset: over what is there, at the end, or past
\* the end, which leaves a hole.
RaceWriteAt(text, offset, piece) ==
    IF offset < Len(text) THEN [text EXCEPT ![offset + 1] = piece]
    ELSE text \o [i \in 1..(offset - Len(text)) |-> RaceHole] \o <<piece>>

\* The UUID new_v4 gives each process: two draws, so two different values.
RaceFresh(p) == IF p = "A" THEN NumUuids - 1 ELSE NumUuids

\* What projects.json holds when the two start, and what they are asked to do.
RaceStartCollections == {EmptyMap, create_project(EmptyMap, "n1", "d1", 1)}
RaceCommandLines ==
    {Args("Project", "Create", NotAUuid, NotAUuid, Some("n1"), None, "-", "-"),
     Args("Project", "Destroy", Uuid_to_string(1), NotAUuid, None, None, "-", "-"),
     Args("Project", "Update", Uuid_to_string(1), NotAUuid, Some("n2"), None, "-", "-"),
     Args("Project", "List", NotAUuid, NotAUuid, None, None, "-", "-")}

InitRace ==
    /\ projects_file = NoFile
    /\ config_file = NoConfigFile
    /\ pc = "start"
    /\ namespace = NoNamespace
    /\ config = Config_default
    /\ projects_data = EmptyMap
    /\ result = Running
    /\ ret = NoUuid
    /\ out = NoOutput
    /\ fileAtStart = NoFile
    /\ creates = 0
    /\ nextUuid = 0
    /\ destroyed = {}
    /\ assigned = {}
    /\ new_call = NoCall
    /\ new_task = NoTask
    /\ race_file \in {RaceText(c) : c \in RaceStartCollections}
    /\ race_proc = [p \in Procs |-> [NoRace[p] EXCEPT !.pc = "start"]]
    /\ race_last = NoProc

\* RuntimeConfig::build in process p: load_data succeeds, Cli::parse.
RaceBuild ==
    \E p \in Procs :
        /\ race_proc[p].pc = "start"
        /\ LET d == load_data(RaceReadFile(race_file))
           IN /\ d.result = Ok
              /\ \E a \in RaceCommandLines :
                    race_proc' = [race_proc EXCEPT ![p] =
                        [@ EXCEPT !.pc = "built", !.namespace = a,
                                  !.loaded = d.projects, !.projects_data = d.projects]]
        /\ UNCHANGED <<race_file, race_last>>
        /\ UNCHANGED SequentialVars

\* RuntimeConfig::build in process p: load_data fails on the text it finds.
RaceBuildFails ==
    \E p \in Procs :
        /\ race_proc[p].pc = "start"
        /\ LET d == load_data(RaceReadFile(race_file))
           IN /\ d.result # Ok
              /\ race_proc' = [race_proc EXCEPT ![p] = [@ EXCEPT !.pc = "exit", !.result = d.result]]
        /\ UNCHANGED <<race_file, race_last>>
        /\ UNCHANGED SequentialVars

\* RuntimeConfig::run in process p: the command returned Ok.
RaceDispatch ==
    \E p \in Procs :
        /\ race_proc[p].pc = "built"
        /\ LET o == run_command(race_proc[p].projects_data, Config_default,
                                race_proc[p].namespace, RaceFresh(p))
           IN /\ PersistsAfter(race_proc[p].namespace, o.result)
              /\ race_proc' = [race_proc EXCEPT ![p] =
                    [@ EXCEPT !.pc = "ran", !.projects_data = o.projects]]
        /\ UNCHANGED <<race_file, race_last>>
        /\ UNCHANGED SequentialVars

\* RuntimeConfig::run in process p: the command returned an Err or panicked.
RaceDispatchFails ==
    \E p \in Procs :
        /\ race_proc[p].pc = "built"
        /\ LET o == run_command(race_proc[p].projects_data, Config_default,
                                race_proc[p].namespace, RaceFresh(p))
           IN /\ ~PersistsAfter(race_proc[p].namespace, o.result)
              /\ race_proc' = [race_proc EXCEPT ![p] = [@ EXCEPT !.pc = "exit", !.result = o.result]]
        /\ UNCHANGED <<race_file, race_last>>
        /\ UNCHANGED SequentialVars

\* write_data in process p: File::create truncates the file, whoever is writing it.
RacePersistCreate ==
    \E p \in Procs :
        /\ race_proc[p].pc = "ran"
        /\ race_file' = NoText
        /\ race_proc' = [race_proc EXCEPT ![p] = [@ EXCEPT !.pc = "created", !.offset = 0]]
        /\ UNCHANGED race_last
        /\ UNCHANGED SequentialVars

\* write_data in process p: to_writer writes its next piece at p's offset; after
\* the last piece write_data returns Ok(()) and the process ends.
RacePersistWrite ==
    \E p \in Procs :
        /\ race_proc[p].pc = "created"
        /\ LET text == RaceText(race_proc[p].projects_data)
               offset == race_proc[p].offset
               last == offset + 1 = Len(text)
           IN /\ race_file' = RaceWriteAt(race_file, offset, text[offset + 1])
              /\ race_proc' = [race_proc EXCEPT ![p] =
                    [@ EXCEPT !.offset = offset + 1,
                              !.pc = IF last THEN "exit" ELSE "created",
                              !.result = IF last THEN Ok ELSE Running]]
              /\ race_last' = IF last THEN p ELSE race_last
        /\ UNCHANGED SequentialVars

NextRace ==
    \/ RaceBuild
    \/ RaceBuildFails
    \/ RaceDispatch
    \/ RaceDispatchFails
    \/ RacePersistCreate
    \/ RacePersistWrite

SpecRace == InitRace /\ [][NextRace]_vars

\* ------------------------------------------------------------------ claims
\* The commands the specification calls mutating.
MutatingCommands == {"Create", "Destroy", "Update", "CreateTask", "DestroyTask", "UpdateTask"}
IsMutating(a) == a.ns = "Project" /\ a.command \in MutatingCommands

\* The invocation has loaded and parsed, and is about to dispatch project command c.
About(c) == pc = "built" /\ namespace.ns = "Project" /\ namespace.command = c
project_uuid == Uuid_parse_str(namespace.project_id)
task_uuid == Uuid_parse_str(namespace.task_id)
\* What the command about to be dispatched does to the in-memory collection.
AfterCommand == run_command(projects_data, config, namespace, nextUuid + 1).projects
\* Every project but k is in both collections, and the same in both.
OthersUnchanged(before, after, k) ==
    /\ (DOMAIN after) \ {k} = (DOMAIN before) \ {k}
    /\ \A x \in (DOMAIN before) \ {k} : after[x] = before[x]

\* C1: an invocation that ends in an error leaves projects.json as it was when
\* the invocation started.
C1_ErrorLeavesFile ==
    (pc = "exit" /\ result \in Errors) => projects_file = fileAtStart

\* C2: destroy with a well-formed id that is no key of the collection ends the
\* run with the NotFound error (no crash) and changes neither the in-memory
\* collection nor the file; with a present id the step removes exactly that
\* project, tasks included.
C2_DestroyProject ==
    [][(About("Destroy") /\ project_uuid.ok) =>
          IF project_uuid.uuid \notin DOMAIN projects_data
          THEN /\ result' = NotFoundProject
               /\ pc' = "exit"
               /\ AfterCommand = projects_data
               /\ projects_file' = projects_file
          ELSE /\ pc' = "ran"
               /\ project_uuid.uuid \notin DOMAIN projects_data'
               /\ OthersUnchanged(projects_data, projects_data', project_uuid.uuid)]_vars

\* C3: destroy-task with well-formed ids fails with NotFound(project) when the
\* project is absent and with NotFound(task) when the project is there and the
\* task is not; either way the collection is unchanged and nothing is persisted.
C3_DestroyTaskNotFound ==
    [][(About("DestroyTask") /\ project_uuid.ok /\ task_uuid.ok) =>
          IF project_uuid.uuid \notin DOMAIN projects_data
          THEN /\ result' = NotFoundProject
               /\ pc' = "exit"
               /\ AfterCommand = projects_data
               /\ projects_file' = projects_file
          ELSE IF task_uuid.uuid \notin DOMAIN projects_data[project_uuid.uuid].tasks
          THEN /\ result' = NotFoundTask
               /\ pc' = "exit"
               /\ AfterCommand = projects_data
               /\ projects_file' = projects_file
          ELSE TRUE]_vars

\* C4: whoever reads projects.json, at any point, finds a complete snapshot:
\* never an empty, truncated or partly written file, and during a save either
\* the snapshot from before it or the new one.
C4_FileAlwaysWholeSnapshot ==
    /\ projects_file.exists => projects_file.complete
    /\ pc \in {"ran", "created"} =>
          projects_file \in {fileAtStart, WrittenFile(projects_data)}

\* C5: when a mutating command ends in success, that is the step completing the
\* one write of this invocation, the file then holds exactly the in-memory
\* collection, and loading the file gives that collection back.
C5_SuccessMeansPersisted ==
    [][(IsMutating(namespace) /\ result' = Ok) =>
          /\ pc = "created" /\ pc' = "exit"
          /\ creates = 1
          /\ projects_file' = WrittenFile(projects_data)
          /\ load_projects(projects_file') = [result |-> Ok, projects |-> projects_data]]_vars

\* C5 witness: a mutating command has ended in success, and the file it left
\* differs from the one it found and holds a project with a task.
C5_Witness ==
    /\ pc = "exit" /\ result = Ok
    /\ projects_file # fileAtStart
    /\ \E m \in projects_file.members : m.value.tasks # {}

\* C6: only a mutating command reaches the Persist step; a non-mutating one
\* leaves projects.json untouched; no invocation persists more than once.
C6_PersistOnlyIfMutating ==
    /\ creates <= 1
    /\ pc = "created" => IsMutating(namespace)
    /\ (pc \in {"built", "ran", "created"} /\ ~IsMutating(namespace)) =>
          projects_file = fileAtStart

\* The fields a patch with these options leaves in a target that was `old`.
Patched(old, new, name, description) ==
    /\ new.id = old.id
    /\ new.name = (IF name = None THEN old.name ELSE name[1])
    /\ new.description = (IF description = None THEN old.description ELSE description[1])

\* C7: update and update-task on an existing target set exactly the supplied
\* fields; the omitted ones, the id, a project's tasks, a task's type and status
\* and every other project and task stay; with no field supplied nothing changes.
C7_PartialPatch ==
    [][/\ (About("Update") /\ project_uuid.ok /\ project_uuid.uuid \in DOMAIN projects_data) =>
            LET id == project_uuid.uuid
            IN /\ pc' = "ran"
               /\ OthersUnchanged(projects_data, projects_data', id)
               /\ id \in DOMAIN projects_data'
               /\ Patched(projects_data[id], projects_data'[id],
                          namespace.name, namespace.description)
               /\ projects_data'[id].tasks = projects_data[id].tasks
               /\ (namespace.name = None /\ namespace.description = None) =>
                      projects_data' = projects_data
       /\ (/\ About("UpdateTask") /\ project_uuid.ok /\ task_uuid.ok
           /\ project_uuid.uuid \in DOMAIN projects_data
           /\ task_uuid.uuid \in DOMAIN projects_data[project_uuid.uuid].tasks) =>
            LET id == project_uuid.uuid
                tid == task_uuid.uuid
                old == projects_data[id]
            IN /\ pc' = "ran"
               /\ OthersUnchanged(projects_data, projects_data', id)
               /\ id \in DOMAIN projects_data'
               /\ LET new == projects_data'[id]
                  IN /\ new.id = old.id
                     /\ new.name = old.name
                     /\ new.description = old.description
                     /\ OthersUnchanged(old.tasks, new.tasks, tid)
                     /\ tid \in DOMAIN new.tasks
                     /\ Patched(old.tasks[tid], new.tasks[tid],
                                namespace.name, namespace.description)
                     /\ new.tasks[tid].type_ = old.tasks[tid].type_
                     /\ new.tasks[tid].status = old.tasks[tid].status
               /\ (namespace.name = None /\ namespace.description = None) =>
                      projects_data' = projects_data]_vars

\* C7 witness: an update-task that supplied only the name has run; the task has
\* the new name, and the description it was created with.
C7_Witness ==
    /\ pc = "ran" /\ namespace.ns = "Project" /\ namespace.command = "UpdateTask"
    /\ namespace.name = Some("n2") /\ namespace.description = None
    /\ LET before == load_projects(fileAtStart).projects[project_uuid.uuid].tasks[task_uuid.uuid]
           after == projects_data[project_uuid.uuid].tasks[task_uuid.uuid]
       IN /\ before.name = "n1" /\ after.name = "n2"
          /\ before.description = "d1" /\ after.description = "d1"
    /\ Cardinality(DOMAIN projects_data[project_uuid.uuid].tasks) = 2

\* C8: create always succeeds and returns an identifier that was no key before;
\* under it the collection then holds a project with the given name and
\* description and no tasks; nothing else in the collection changes.
C8_CreateProject ==
    [][About("Create") =>
          /\ pc' = "ran"
          /\ ret' \notin DOMAIN projects_data
          /\ DOMAIN projects_data' = (DOMAIN projects_data) \cup {ret'}
          /\ get_project(projects_data', ret') =
                Some([id |-> ret', name |-> namespace.name[1],
                      description |-> OrEmpty(namespace.description), tasks |-> EmptyMap])
          /\ \A k \in DOMAIN projects_data : projects_data'[k] = projects_data[k]]_vars

\* C8 witness: a create with a description has run on a collection that already
\* held a project with a task.
C8_Witness ==
    /\ pc = "ran" /\ namespace.ns = "Project" /\ namespace.command = "Create"
    /\ namespace.description = Some("d1")
    /\ projects_data[ret].description = "d1"
    /\ \E k \in DOMAIN projects_data : k # ret /\ projects_data[k].tasks # EmptyMap

\* A uuid is the id of a task somewhere in the in-memory collection or the file.
TaskSurvives(t) ==
    \/ \E k \in DOMAIN projects_data : t \in DOMAIN projects_data[k].tasks
    \/ \E m \in projects_file.members : \E tm \in m.value.tasks : tm.key = Uuid_to_string(t)

\* C9, the state part: a destroyed project and its tasks are in neither the
\* in-memory collection nor the file.
C9_DestroyedIsGone ==
    \A d \in destroyed :
        /\ d.project \notin DOMAIN projects_data
        /\ \A m \in projects_file.members : m.key # Uuid_to_string(d.project)
        /\ \A t \in d.tasks : ~TaskSurvives(t)

\* C9, the command part: list-tasks, create-task, update-task and destroy-task
\* that name a destroyed project (the last two with an id of a task it held)
\* end with NotFound for the project.
C9_DestroyedIsNotFound ==
    \A d \in destroyed :
        (/\ pc = "built" /\ namespace.ns = "Project"
         /\ namespace.project_id = Uuid_to_string(d.project)
         /\ \/ namespace.command \in {"ListTasks", "CreateTask"}
            \/ /\ namespace.command \in {"UpdateTask", "DestroyTask"}
               /\ task_uuid.ok /\ task_uuid.uuid \in d.tasks)
        => (result' = NotFoundProject /\ pc' = "exit")

\* C9: once a destroy of P has ended in success, in every later state and
\* invocation P and the tasks it held are gone from collection and file, and
\* every task command that names P ends with NotFound.
C9_CascadeOnDestroy == [](C9_DestroyedIsGone) /\ [][C9_DestroyedIsNotFound]_vars

\* C9 witness: a later invocation is about to dispatch destroy-task with a
\* destroyed project and the id of a task that project held.
C9_Witness ==
    /\ pc = "built" /\ namespace.ns = "Project" /\ namespace.command = "DestroyTask"
    /\ \E d \in destroyed :
          /\ namespace.project_id = Uuid_to_string(d.project)
          /\ task_uuid.ok /\ task_uuid.uuid \in d.tasks

\* C10: create-task on an existing project adds exactly one task, under the
\* returned id, with the given name and description, type Default and status
\* Todo; the project's other fields and tasks and all other projects stay; a
\* list-tasks after the save lists the previous tasks and this one.
C10_CreateTask ==
    [][(About("CreateTask") /\ project_uuid.ok /\ project_uuid.uuid \in DOMAIN projects_data) =>
          LET id == project_uuid.uuid
              old == projects_data[id]
              name == namespace.name[1]
              description == OrEmpty(namespace.description)
              reloaded == load_projects(to_writer(projects_file, projects_data')).projects
          IN /\ pc' = "ran"
             /\ OthersUnchanged(projects_data, projects_data', id)
             /\ id \in DOMAIN projects_data'
             /\ LET new == projects_data'[id]
                IN /\ new.id = old.id
                   /\ new.name = old.name
                   /\ new.description = old.description
                   /\ ret' \notin DOMAIN old.tasks
                   /\ DOMAIN new.tasks = (DOMAIN old.tasks) \cup {ret'}
                   /\ \A k \in DOMAIN old.tasks : new.tasks[k] = old.tasks[k]
                   /\ new.tasks[ret'] =
                         [id |-> ret', name |-> name, description |-> description,
                          type_ |-> "Default", status |-> "Todo"]
             /\ ProjectCommand_ListTasks(reloaded, namespace).out.lines =
                   ProjectCommand_ListTasks(projects_data, namespace).out.lines
                      \cup {Line(ret', name, description)}]_vars

\* C10 witness: a create-task has run on a project that already held a task.
C10_Witness ==
    /\ pc = "ran" /\ namespace.ns = "Project" /\ namespace.command = "CreateTask"
    /\ project_uuid.uuid \in DOMAIN projects_data
    /\ ret \in DOMAIN projects_data[project_uuid.uuid].tasks
    /\ Cardinality(DOMAIN projects_data[project_uuid.uuid].tasks) = 2
    /\ projects_data[project_uuid.uuid].tasks[ret].status = "Todo"

\* The invocation about to dispatch names, with well-formed ids, a project that
\* is not in the collection.
NamesAbsentProject ==
    /\ pc = "built" /\ namespace.ns = "Project"
    /\ project_uuid.ok
    /\ namespace.command = "UpdateTask" => task_uuid.ok
    /\ project_uuid.uuid \notin DOMAIN projects_data

\* The step ends the invocation with error e, having changed nothing in memory,
\* drawn no identifier and left projects.json as the invocation found it.
FailsWith(e) ==
    /\ result' = e
    /\ pc' = "exit"
    /\ AfterCommand = projects_data
    /\ nextUuid' = nextUuid
    /\ projects_file' = projects_file
    /\ projects_file' = fileAtStart

\* C11: create-task, update-task and list-tasks that name a project absent from
\* the collection end with NotFound for the project; update-task on a present
\* project with an absent task id ends with NotFound for the task; in each case
\* no project or task is created or modified, in memory or in the file.
C11_TaskCommandsNotFound ==
    [][/\ (NamesAbsentProject /\ namespace.command \in {"CreateTask", "UpdateTask", "ListTasks"})
            => FailsWith(NotFoundProject)
       /\ (/\ About("UpdateTask") /\ project_uuid.ok /\ task_uuid.ok
           /\ project_uuid.uuid \in DOMAIN projects_data
           /\ task_uuid.uuid \notin DOMAIN projects_data[project_uuid.uuid].tasks)
            => FailsWith(NotFoundTask)]_vars

\* C11 witness: an update-task on a stored project that holds a task ended with
\* NotFound for the task (the only command that returns that error), and the
\* file is as the invocation found it.
C11_Witness ==
    /\ pc = "exit" /\ result = NotFoundTask
    /\ projects_file = fileAtStart
    /\ \E m \in projects_file.members : m.value.tasks # {}

\* The identifiers of a collection as the JSON text carries them: for every
\* project its key and its id field, for every task the two keys and its id field.
TextIds(projects) ==
    {[project |-> Uuid_to_string(k), task |-> None, id |-> Uuid_to_string(projects[k].id)] :
        k \in DOMAIN projects}
    \cup UNION {{[project |-> Uuid_to_string(k), task |-> Some(Uuid_to_string(t)),
                  id |-> Uuid_to_string(projects[k].tasks[t].id)] :
                    t \in DOMAIN projects[k].tasks} : k \in DOMAIN projects}

\* The same, read off the members of projects.json.
FileIds(f) ==
    {[project |-> m.key, task |-> None, id |-> m.value.id] : m \in f.members}
    \cup UNION {{[project |-> m.key, task |-> Some(tm.key), id |-> tm.value.id] :
                    tm \in m.value.tasks} : m \in f.members}

\* C12, in memory: a project or task that is in the collection before and after a
\* step has the same id after it.
C12_IdsKeptInMemory ==
    \A k \in (DOMAIN projects_data) \cap (DOMAIN projects_data') :
        /\ projects_data'[k].id = projects_data[k].id
        /\ \A t \in (DOMAIN projects_data[k].tasks) \cap (DOMAIN projects_data'[k].tasks) :
              projects_data'[k].tasks[t].id = projects_data[k].tasks[t].id

\* C12, save and load: the completed write puts every id into the file as it is
\* in memory, and the load of the next invocation reads every id as the file has it.
C12_IdsKeptBySaveLoad ==
    /\ (pc = "created" /\ pc' = "exit" /\ result' = Ok) =>
          FileIds(projects_file') = TextIds(projects_data)
    /\ (pc = "start" /\ pc' = "built") =>
          TextIds(projects_data') = FileIds(projects_file)

\* C12, no reuse: an identifier that a command newly puts into the collection
\* was never the id of a project or task before, deleted or not.
C12_NoReuse ==
    (pc = "built" /\ pc' = "ran") =>
        \A u \in AllIds(projects_data') \ AllIds(projects_data) : u \notin assigned

\* C12: over any sequence of invocations no step (update, save and load
\* included) changes the id of a project or task, and create and create-task
\* never hand out an identifier that was assigned before.
C12_IdentityStability ==
    [][C12_IdsKeptInMemory /\ C12_IdsKeptBySaveLoad /\ C12_NoReuse]_vars

\* C12 witness: a create has run after a project with a task was destroyed; the
\* new project's id is none of the deleted ones, and every UUID has been used.
C12_Witness ==
    /\ pc = "ran" /\ namespace.ns = "Project" /\ namespace.command = "Create"
    /\ ret \in DOMAIN projects_data
    /\ \E d \in destroyed : d.tasks # {} /\ ret \notin ({d.project} \cup d.tasks)
    /\ Cardinality(assigned) = NumUuids

\* C13, every file: whatever complete projects.json the program has written
\* loads without error, and writing the loaded collection gives the same members.
C13_FileRoundTrips ==
    (projects_file.exists /\ projects_file.complete) =>
        LET loaded == load_projects(projects_file)
        IN /\ loaded.result = Ok
           /\ to_writer(projects_file, loaded.projects) = projects_file

\* C13, every run: an invocation that loaded an existing file and completes its
\* write with the collection as loaded leaves the file with the content it found.
C13_RunRoundTrips ==
    (/\ pc = "created" /\ pc' = "exit" /\ result' = Ok
     /\ fileAtStart.exists
     /\ projects_data = load_projects(fileAtStart).projects)
    => projects_file' = fileAtStart

\* C13: loading projects.json and saving it again with no mutation in between
\* yields the original content: the same projects, ids, names, descriptions and
\* tasks with the same type and status (members are a set, so key order is ignored).
C13_RoundTrip == [](C13_FileRoundTrips) /\ [][C13_RunRoundTrips]_vars

\* C13 witness: a `project list` has loaded and rewritten a file that holds a
\* project with a task, and the file is as it was.
C13_Witness ==
    /\ pc = "exit" /\ result = Ok
    /\ out.header = <<"Projects:">>
    /\ creates = 1
    /\ projects_file = fileAtStart
    /\ \E m \in projects_file.members :
          \E tm \in m.value.tasks : tm.value.status = "Todo" /\ tm.value.description = "d1"

\* projects.json / config.json is there and its text is not a JSON document.
Unparsable(f) == f.exists /\ ~f.complete

\* C14: with no projects.json the load gives an empty collection and no error;
\* with a projects.json that does not parse the run ends with CorruptStore; the
\* same for config.json: absent gives the default Config, unparsable gives
\* CorruptStore.
C14_LoadPolicy ==
    [][pc = "start" =>
          /\ ~projects_file.exists =>
                /\ load_projects(projects_file) = [result |-> Ok, projects |-> EmptyMap]
                /\ ~Unparsable(config_file) =>
                      (pc' = "built" /\ projects_data' = EmptyMap /\ result' = Running)
          /\ Unparsable(projects_file) =>
                /\ load_projects(projects_file).result = CorruptStore
                /\ pc' = "exit" /\ result' = CorruptStore
          /\ ~config_file.exists =>
                /\ load_config(config_file) = [result |-> Ok, config |-> Config_default]
                /\ ~Unparsable(projects_file) =>
                      (pc' = "built" /\ config' = Config_default /\ result' = Running)
          /\ Unparsable(config_file) =>
                /\ load_config(config_file).result = CorruptStore
                /\ pc' = "exit" /\ result' = CorruptStore]_vars

\* C14 witness: an invocation with no config.json found a projects.json that a
\* failed write had left with part of its text, and ended with CorruptStore.
C14_Witness ==
    /\ pc = "exit" /\ result = CorruptStore
    /\ ~config_file.exists
    /\ Unparsable(projects_file) /\ projects_file.members # {}
    /\ projects_file = fileAtStart

\* The invocation has loaded and parsed, and is about to dispatch config command c.
AboutConfig(c) == pc = "built" /\ namespace.ns = "Config" /\ namespace.command = c

\* C15: config set, for every key and value, returns Ok, leaves the in-memory
\* Config as it was and prints only its acknowledgment; no step of any
\* invocation writes config.json; so every config get persistence_mode that is
\* dispatched, in this or a later invocation, reports the mode config.json gave
\* before the set.
C15_ConfigSetNoOp ==
    [][/\ config_file' = config_file
       /\ AboutConfig("Set") =>
             /\ pc' = "ran"
             /\ config' = config
             /\ out'.header = <<"Setting config key:", namespace.key, "to value:", namespace.value>>
       /\ (AboutConfig("Get") /\ namespace.key = "persistence_mode") =>
             /\ config = load_config(config_file).config
             /\ out'.header = <<"Persistence Mode:", config.persistence_mode>>]_vars

\* C15 witness: config set persistence_mode SQL has run, and the Config in
\* memory still has the mode JSON.
C15_Witness ==
    /\ pc = "ran" /\ namespace.ns = "Config" /\ namespace.command = "Set"
    /\ namespace.key = "persistence_mode" /\ namespace.value = "SQL"
    /\ out.header = <<"Setting config key:", "persistence_mode", "to value:", "SQL">>
    /\ config.persistence_mode = "JSON"

\* C16, the file: no step creates config.json.
C16_NoConfigFileStays == ~config_file.exists => ~config_file'.exists

\* C16, the run: with no config.json, and a projects.json that loads, the
\* invocation gets to its command, and a config get persistence_mode prints JSON.
C16_GetReportsJson ==
    ~config_file.exists =>
        /\ (pc = "start" /\ load_projects(projects_file).result = Ok) =>
              (pc' = "built" /\ config' = [persistence_mode |-> "JSON"])
        /\ (AboutConfig("Get") /\ namespace.key = "persistence_mode") =>
              (pc' = "ran" /\ out' = [header |-> <<"Persistence Mode:", "JSON">>, lines |-> {}])

\* C16: on a run with no config.json, config get persistence_mode reports the
\* default mode JSON, also after any earlier project and config commands that
\* themselves started without a config.json.
C16_DefaultModeIsJson == [][C16_NoConfigFileStays /\ C16_GetReportsJson]_vars

\* C16 witness: with no config.json, after invocations that created a project
\* with a task and destroyed one, config get persistence_mode has printed JSON.
C16_Witness ==
    /\ pc = "ran" /\ namespace.ns = "Config" /\ namespace.command = "Get"
    /\ namespace.key = "persistence_mode"
    /\ ~config_file.exists
    /\ out.header = <<"Persistence Mode:", "JSON">>
    /\ destroyed # {}
    /\ \E k \in DOMAIN projects_data : projects_data[k].tasks # EmptyMap

\* C17: ProjectTask::new succeeds on every pair of type and status strings; a
\* type string it does not recognise gives type Default and a status string it
\* does not recognise gives status Todo; todo, in_progress and complete give
\* Todo, InProgress and Complete.
C17_LenientConstruction ==
    new_task # NoTask =>
        /\ new_task.id \in Uuids
        /\ new_task.name = new_call.name
        /\ new_task.description = new_call.description
        /\ new_task.type_ = "Default"
        /\ new_task.status =
              CASE new_call.status = "todo" -> "Todo"
                [] new_call.status = "in_progress" -> "InProgress"
                [] new_call.status = "complete" -> "Complete"
                [] OTHER -> "Todo"

\* C17 as the code has it: ProjectTask::new succeeds on every pair of type and
\* status strings; every type string gives type Default; todo, in_progress and
\* complete give Todo, InProgress and Complete, and every other status string
\* gives status Default (from_str returns Ok(Default), never the Err that
\* ProjectTask::new would turn into Todo).
C17_LenientConstruction_Amended ==
    new_task # NoTask =>
        /\ new_task.id \in Uuids
        /\ new_task.name = new_call.name
        /\ new_task.description = new_call.description
        /\ new_task.type_ = "Default"
        /\ new_task.status =
              CASE new_call.status = "todo" -> "Todo"
                [] new_call.status = "in_progress" -> "InProgress"
                [] new_call.status = "complete" -> "Complete"
                [] OTHER -> "Default"

\* C17 witness: ProjectTask::new has returned for a type and a status string it
\* does not recognise.
C17_Witness ==
    /\ new_task # NoTask
    /\ new_call.type_ = "bogus" /\ new_call.status = "bogus"
    /\ new_task.type_ = "Default" /\ new_task.status = "Default"

\* C18, the states: an invocation is past Load only if both files could be
\* loaded, and one that ended with CorruptStore has printed no command output,
\* created no file and left projects.json as it found it.
C18_NoCommandAfterFailedLoad ==
    /\ pc \in {"built", "ran", "created"} =>
          (~Unparsable(fileAtStart) /\ ~Unparsable(config_file))
    /\ (pc = "exit" /\ result = CorruptStore) =>
          (projects_file = fileAtStart /\ creates = 0 /\ out = NoOutput)

\* C18, the step: from the start of an invocation with a file that does not
\* parse, the only step is the exit with CorruptStore: no command line is
\* parsed, no identifier drawn, and both files stay.
C18_FailedLoadExits ==
    (pc = "start" /\ (Unparsable(projects_file) \/ Unparsable(config_file))) =>
        /\ pc' = "exit" /\ result' = CorruptStore
        /\ namespace' = NoNamespace
        /\ out' = NoOutput /\ creates' = 0
        /\ UNCHANGED <<projects_file, config_file, nextUuid, assigned, destroyed>>

\* C18: when projects.json or config.json exists and cannot be parsed, the run
\* ends in Load: no command of either namespace is executed, nothing is
\* persisted, and both files are left as they were.
C18_LoadFailureAborts == [](C18_NoCommandAfterFailedLoad) /\ [][C18_FailedLoadExits]_vars

\* C18 witness: a run that found a partly written projects.json has ended with
\* CorruptStore, with no command parsed, no output, no write, the file untouched.
C18_Witness ==
    /\ pc = "exit" /\ result = CorruptStore
    /\ Unparsable(fileAtStart)
    /\ namespace = NoNamespace /\ out = NoOutput /\ creates = 0
    /\ projects_file = fileAtStart
    /\ assigned # {}

\* Both concurrent invocations have ended in success.
RaceBothDone == \A p \in Procs : race_proc[p].pc = "exit" /\ race_proc[p].result = Ok

\* C19: when two invocations have run concurrently on one projects.json and both
\* have ended, the file is exactly the complete snapshot of the one whose
\* Persist finished last, never a mixture; so what the other one changed after
\* both had loaded is not in the file.
C19_LastWriterWins ==
    RaceBothDone =>
        RaceReadFile(race_file) = WrittenFile(race_proc[race_last].projects_data)

\* C20 in memory: every project is under the key that is its id, every task is
\* under the key that is its id, and no task id is in the maps of two projects.
C20_MemoryIntegrity ==
    \A k \in DOMAIN projects_data :
        /\ projects_data[k].id = k
        /\ \A t \in DOMAIN projects_data[k].tasks :
              /\ projects_data[k].tasks[t].id = t
              /\ \A k2 \in (DOMAIN projects_data) \ {k} : t \notin DOMAIN projects_data[k2].tasks

\* C20 in the file: the same of the members of projects.json, partly written or not.
C20_FileIntegrity ==
    \A m \in projects_file.members :
        /\ m.value.id = m.key
        /\ \A tm \in m.value.tasks :
              /\ tm.value.id = tm.key
              /\ \A m2 \in projects_file.members \ {m} :
                    \A tm2 \in m2.value.tasks : tm2.key # tm.key

\* C20, no move: a task that is in the collection, or in the file, before and
\* after a step is in the same project after it.
C20_TasksStay ==
    /\ \A k \in DOMAIN projects_data : \A k2 \in DOMAIN projects_data' :
          \A t \in (DOMAIN projects_data[k].tasks) \cap (DOMAIN projects_data'[k2].tasks) : k2 = k
    /\ \A m \in projects_file.members : \A m2 \in projects_file'.members :
          \A tm \in m.value.tasks : \A tm2 \in m2.value.tasks :
              tm2.key = tm.key => m2.key = m.key

\* C20: from an empty store, through any commands and save/load cycles, each
\* project is stored under its own id, each task under its own id, each task in
\* the task map of exactly one project, and no step moves or copies a task.
C20_ParentChildIntegrity ==
    [](C20_MemoryIntegrity /\ C20_FileIntegrity) /\ [][C20_TasksStay]_vars

\* C20 witness: an invocation has loaded a file with two projects, one of them
\* holding a task.
C20_Witness ==
    /\ pc = "built"
    /\ Cardinality(DOMAIN projects_data) = 2
    /\ Cardinality(projects_file.members) = 2
    /\ \E k \in DOMAIN projects_data : projects_data[k].tasks # EmptyMap

====
